---- MODULE Spec2Model ----
(***************************************************************************)
(* State-machine model of the snake game of src/src/snakeGame.ts (class    *)
(* SnakeGame) together with the extension entry point that starts it       *)
(* (activate, src/SETUP.md lines 87-118) and the host timers it uses       *)
(* (setInterval for the game loop, setTimeout for the hidden-line expiry). *)
(*                                                                         *)
(* Cells are records [line, char] with 0-based indices as in the source.   *)
(* A line's text is a sequence of one-character strings; TLA+ sequences    *)
(* are 1-based, so character c of a text is text[c + 1].                   *)
(* A nullable field (food, foodDecoration, ...) is a sequence of length 0  *)
(* (null) or 1.                                                            *)
(* Time is abstracted to the order of events.  The game loop's interval    *)
(* can fire whenever it is live.  The hidden-line expiry callbacks all     *)
(* have the same delay, so they fire in the order they were scheduled;     *)
(* a pending callback stands for "the delay since its collision has not    *)
(* elapsed yet".                                                           *)
(* Of a notification only its kind (information, error) is kept.           *)
(* The older compiled variant of the class (src/unnamed/part_000 lines      *)
(* 38-350) is modelled on the same state, by the definitions whose names    *)
(* end in Older, under its own specification SpecOlder.                     *)
(* Not modelled: console.log, and                                          *)
(* scrollToSnake/revealRange (it moves the viewport, which no handler      *)
(* reads after the constructor).                                           *)
(***************************************************************************)
EXTENDS Integers, Sequences, FiniteSets, Bags, TLC

(***************************************************************************)
(* Bounds of the model.                                                    *)
(***************************************************************************)
\* Math.random() is drawn from {0/RandDen, ..., (RandDen-1)/RandDen}.
RandDen == 2
\* Ticks of the game loop that advance the snake (or end the game).
MaxMoves == 3
\* Session instances the start command creates in one behaviour.
MaxSessions == 2
\* Invocations of the game-over listener of the older variant's session.
MaxSignals == 2

(***************************************************************************)
(* Program constants.                                                      *)
(***************************************************************************)
MaxAttempts == 100
MinFoodWidth == 10
FallbackChar == 10
LinesPerPoint == 10
DefaultMaxColumn == 120
MinMaxColumn == 80
MaxMaxColumn == 150
ViewportMargin == 20
StartMargin == 3
FoodMarkWidth == 3
RightOverhang == 5

Min(a, b) == IF a < b THEN a ELSE b
Max(a, b) == IF a > b THEN a ELSE b

(***************************************************************************)
(* The documents a session is started on: editor.document (languageId,     *)
(* lineCount, the text of each line) and editor.visibleRanges (empty, or   *)
(* the end character of the first range).  Lines past the listed ones are  *)
(* empty.                                                                  *)
(***************************************************************************)
Repeat(ch, n) == [i \in 1..n |-> ch]

SlashLine == <<"/", "/">>
HashLine == <<"a", "#">>
TagLine == <<" ", "x">>
BlankLine == <<" ", " ", " ">>
LongLine == Repeat("x", 240)
WideLine == Repeat("x", 80)
ShortBlank == Repeat(" ", 11)
LongBlank == Repeat(" ", 20)

Documents ==
  { [languageId |-> "plaintext",  lineCount |-> 1,   lines |-> <<LongLine>>,
     visibleRanges |-> <<>>],
    [languageId |-> "markdown",   lineCount |-> 1,   lines |-> << <<>> >>,
     visibleRanges |-> <<>>],
    [languageId |-> "javascript", lineCount |-> 100, lines |-> <<SlashLine, BlankLine>>,
     visibleRanges |-> <<200>>],
    [languageId |-> "python",     lineCount |-> 50,  lines |-> <<HashLine, BlankLine>>,
     visibleRanges |-> <<70>>],
    [languageId |-> "html",       lineCount |-> 9,   lines |-> <<TagLine, TagLine>>,
     visibleRanges |-> <<40>>],
    [languageId |-> "css",        lineCount |-> 2,   lines |-> <<ShortBlank, LongBlank>>,
     visibleRanges |-> <<100>>],
    [languageId |-> "typescript", lineCount |-> 10,
     lines |-> << <<>>, <<>>, <<>>, <<>>, <<>>, <<>>, <<>>, <<>>, <<>>, WideLine >>,
     visibleRanges |-> <<60>>] }

VARIABLES
  doc,                   \* editor.document and editor.visibleRanges
  activeEditor,          \* vscode.window.activeTextEditor is defined
  currentGame,           \* the extension's currentGame: "undefined" or "game"
  snake, direction, food, score, isRunning, isPaused,
  gameLoop,              \* the field: "null" or "interval"
  keyListener,           \* the field: "null" or "disposable"
  snakeDecorations, foodDecoration, hiddenLinesDecoration,
  hiddenLines,
  gameOverCallback,      \* the field: "null" or "callback"
  statusBar, pointsPerFood, commentPatterns, maxColumn,
  interval,              \* host: the setInterval of the game loop is live
  timers,                \* host: the lines of the pending setTimeout callbacks,
                         \* in the order they were scheduled
  commands,              \* host: the snakegame.* command handlers are registered
  typeCommand,           \* host: a handler of the 'type' command is registered
                         \* (the older variant's keyListener)
  applied,               \* host: the bag of decoration types the session has
                         \* created on the editor and not disposed
  notices,               \* host: the kinds of the notifications the latest
                         \* operation showed
  listenerSaw,           \* what held each time the session's game-over listener
                         \* was invoked: one record per invocation
  old,                   \* the session instances the start command replaced,
                         \* oldest first, each as a record like This
  snakeGameActive,       \* host: the context key set by setContext
  moves,                 \* bounded counter: the ticks that advanced the snake
  tickHeading,           \* the heading the latest advancing tick used, or "none"
  commentHits,           \* the ticks of currentGame's session whose head landed
                         \* on comment text
  lastOp                 \* the latest operation and its outcome

vars == << doc, activeEditor, currentGame, snake, direction, food, score,
           isRunning, isPaused, gameLoop, keyListener, snakeDecorations,
           foodDecoration, hiddenLinesDecoration, hiddenLines, gameOverCallback,
           statusBar, pointsPerFood, commentPatterns, maxColumn, interval,
           timers, commands, typeCommand, applied, notices, listenerSaw, old,
           snakeGameActive, moves, tickHeading, commentHits, lastOp >>

(***************************************************************************)
(* The session object and the host state its handlers touch, as one        *)
(* record: every handler below maps such a record to the record (or the    *)
(* set of possible records) it leaves behind.                              *)
(***************************************************************************)
This ==
  [ currentGame |-> currentGame, snake |-> snake, direction |-> direction,
    food |-> food, score |-> score, isRunning |-> isRunning,
    isPaused |-> isPaused, gameLoop |-> gameLoop, keyListener |-> keyListener,
    snakeDecorations |-> snakeDecorations, foodDecoration |-> foodDecoration,
    hiddenLinesDecoration |-> hiddenLinesDecoration, hiddenLines |-> hiddenLines,
    gameOverCallback |-> gameOverCallback, statusBar |-> statusBar,
    pointsPerFood |-> pointsPerFood, commentPatterns |-> commentPatterns,
    maxColumn |-> maxColumn, interval |-> interval, timers |-> timers,
    commands |-> commands, typeCommand |-> typeCommand, applied |-> applied,
    notices |-> notices,
    listenerSaw |-> listenerSaw,
    snakeGameActive |-> snakeGameActive ]

Commit(w) ==
  /\ currentGame' = w.currentGame
  /\ snake' = w.snake
  /\ direction' = w.direction
  /\ food' = w.food
  /\ score' = w.score
  /\ isRunning' = w.isRunning
  /\ isPaused' = w.isPaused
  /\ gameLoop' = w.gameLoop
  /\ keyListener' = w.keyListener
  /\ snakeDecorations' = w.snakeDecorations
  /\ foodDecoration' = w.foodDecoration
  /\ hiddenLinesDecoration' = w.hiddenLinesDecoration
  /\ hiddenLines' = w.hiddenLines
  /\ gameOverCallback' = w.gameOverCallback
  /\ statusBar' = w.statusBar
  /\ pointsPerFood' = w.pointsPerFood
  /\ commentPatterns' = w.commentPatterns
  /\ maxColumn' = w.maxColumn
  /\ interval' = w.interval
  /\ timers' = w.timers
  /\ commands' = w.commands
  /\ typeCommand' = w.typeCommand
  /\ applied' = w.applied
  /\ notices' = w.notices
  /\ listenerSaw' = w.listenerSaw
  /\ snakeGameActive' = w.snakeGameActive

\* The state an operation starts from: the notifications shown are those of
\* the operation itself.
Begin == [This EXCEPT !.notices = <<>>]

\* vscode.window.showInformationMessage / showErrorMessage
showInformationMessage(w) == [w EXCEPT !.notices = Append(@, "info")]
showErrorMessage(w) == [w EXCEPT !.notices = Append(@, "error")]

(***************************************************************************)
(* The document.                                                           *)
(***************************************************************************)
lineCount == doc.lineCount

\* editor.document.lineAt(line).text
lineText(line) == IF line + 1 <= Len(doc.lines) THEN doc.lines[line + 1] ELSE <<>>

\* ch.trim() !== '' for a one-character string
NonBlank(ch) == ch \notin {" ", "\t"}

\* text.trim().length === 0
TrimmedEmpty(text) == \A i \in 1..Len(text) : ~NonBlank(text[i])

Opposite(d) ==
  CASE d = "up" -> "down" [] d = "down" -> "up"
    [] d = "left" -> "right" [] d = "right" -> "left"


Cell(l, c) == [line |-> l, char |-> c]

(***************************************************************************)
(* constructor and its helpers                                             *)
(***************************************************************************)
\* calculatePoints: Math.max(1, Math.floor(lineCount / 10))
calculatePointsNoMinimum(n) == n \div LinesPerPoint

calculatePoints(n) == Max(1, n \div LinesPerPoint)

\* detectLanguage: the comment markers of the document's language.  A
\* single-line pattern /\/\/.*/ or /#.*/ is kept as the marker it starts with.
detectLanguage(languageId) ==
  IF languageId \in {"javascript", "typescript", "java", "c", "cpp", "csharp", "go", "rust"}
  THEN [single |-> << <<"/", "/">> >>, multi |-> <<"/*">>]
  ELSE IF languageId \in {"python", "ruby", "shell", "bash"}
  THEN [single |-> << <<"#">> >>, multi |-> <<"dq3", "sq3">>]
  ELSE IF languageId \in {"html", "xml"}
  THEN [single |-> <<>>, multi |-> <<"<!--">>]
  ELSE IF languageId \in {"css", "scss", "less"}
  THEN [single |-> <<>>, multi |-> <<"/*">>]
  ELSE [single |-> <<>>, multi |-> <<>>]

\* calculateViewportWidth
calculateViewportWidth(visibleRanges) ==
  IF Len(visibleRanges) > 0
  THEN Min(MaxMaxColumn, Max(MinMaxColumn, visibleRanges[1] + ViewportMargin))
  ELSE DefaultMaxColumn

\* The field initialisers of class SnakeGame.
Fields ==
  [ snake |-> <<>>, direction |-> "left", food |-> <<>>, score |-> 0,
    isRunning |-> FALSE, isPaused |-> FALSE, gameLoop |-> "null",
    keyListener |-> "null", snakeDecorations |-> <<>>, foodDecoration |-> <<>>,
    hiddenLinesDecoration |-> <<>>, hiddenLines |-> {},
    gameOverCallback |-> "null", pointsPerFood |-> 1,
    commentPatterns |-> [single |-> <<>>, multi |-> <<>>],
    maxColumn |-> DefaultMaxColumn,
    statusBar |-> [created |-> FALSE, shown |-> FALSE, disposed |-> FALSE,
                   text |-> <<>>] ]

\* new SnakeGame(editor)
constructor(w) ==
  [w EXCEPT !.statusBar = [created |-> TRUE, shown |-> FALSE, disposed |-> FALSE,
                           text |-> <<>>],
            !.pointsPerFood = calculatePoints(lineCount),
            !.commentPatterns = detectLanguage(doc.languageId),
            !.maxColumn = calculateViewportWidth(doc.visibleRanges)]

(***************************************************************************)
(* Presentation                                                            *)
(***************************************************************************)
Range(l, c1, c2) == [line |-> l, start |-> c1, end |-> c2]

\* The bag of the decoration types a field refers to.
BagOf(s) ==
  [d \in {s[i] : i \in 1..Len(s)} |-> Cardinality({i \in 1..Len(s) : s[i] = d})]

\* Every decoration type the fields refer to is disposed (taken off the
\* editor) and the fields are emptied.
clearDecorations(w) ==
  [w EXCEPT !.applied = ((@ (-) BagOf(w.snakeDecorations)) (-) BagOf(w.foodDecoration))
                          (-) BagOf(w.hiddenLinesDecoration),
            !.snakeDecorations = <<>>, !.foodDecoration = <<>>,
            !.hiddenLinesDecoration = <<>>]

ClampLine(l) == Max(0, Min(l, lineCount - 1))

renderKeepsOld(w) ==
  LET c == w
      headDeco ==
        IF Len(c.snake) > 0
        THEN << [kind |-> "head",
                 ranges |-> { Range(ClampLine(c.snake[1].line), Max(0, c.snake[1].char),
                                    Max(0, c.snake[1].char) + 1) }] >>
        ELSE <<>>
      bodyDeco ==
        IF Len(c.snake) > 1
        THEN << [kind |-> "body",
                 ranges |-> { Range(ClampLine(c.snake[i].line), Max(0, c.snake[i].char),
                                    Max(0, c.snake[i].char) + 1) : i \in 2..Len(c.snake) }] >>
        ELSE <<>>
      foodDeco ==
        IF c.food # <<>>
        THEN << [kind |-> "food",
                 ranges |-> { Range(ClampLine(c.food[1].line), Max(0, c.food[1].char),
                                    Max(0, c.food[1].char) + FoodMarkWidth) }] >>
        ELSE <<>>
      hiddenDeco ==
        IF Cardinality(c.hiddenLines) > 0
        THEN << [kind |-> "hidden",
                 ranges |-> { Range(ClampLine(l), 0, Len(lineText(ClampLine(l))))
                              : l \in c.hiddenLines }] >>
        ELSE <<>>
  IN [c EXCEPT !.applied = ((@ (+) BagOf(headDeco \o bodyDeco)) (+) BagOf(foodDeco))
                            (+) BagOf(hiddenDeco),
               !.snakeDecorations = headDeco \o bodyDeco,
               !.foodDecoration = foodDeco,
               !.hiddenLinesDecoration = hiddenDeco]

render(w) ==
  LET c == clearDecorations(w)
      headDeco ==
        IF Len(c.snake) > 0
        THEN << [kind |-> "head",
                 ranges |-> { Range(ClampLine(c.snake[1].line), Max(0, c.snake[1].char),
                                    Max(0, c.snake[1].char) + 1) }] >>
        ELSE <<>>
      bodyDeco ==
        IF Len(c.snake) > 1
        THEN << [kind |-> "body",
                 ranges |-> { Range(ClampLine(c.snake[i].line), Max(0, c.snake[i].char),
                                    Max(0, c.snake[i].char) + 1) : i \in 2..Len(c.snake) }] >>
        ELSE <<>>
      foodDeco ==
        IF c.food # <<>>
        THEN << [kind |-> "food",
                 ranges |-> { Range(ClampLine(c.food[1].line), Max(0, c.food[1].char),
                                    Max(0, c.food[1].char) + FoodMarkWidth) }] >>
        ELSE <<>>
      hiddenDeco ==
        IF Cardinality(c.hiddenLines) > 0
        THEN << [kind |-> "hidden",
                 ranges |-> { Range(ClampLine(l), 0, Len(lineText(ClampLine(l))))
                              : l \in c.hiddenLines }] >>
        ELSE <<>>
  IN [c EXCEPT !.applied = ((@ (+) BagOf(headDeco \o bodyDeco)) (+) BagOf(foodDeco))
                            (+) BagOf(hiddenDeco),
               !.snakeDecorations = headDeco \o bodyDeco,
               !.foodDecoration = foodDeco,
               !.hiddenLinesDecoration = hiddenDeco]

updateStatusBar(w) ==
  [w EXCEPT !.statusBar.text =
     << IF w.isPaused THEN "paused" ELSE IF w.isRunning THEN "running" ELSE "plain",
        w.score, Len(w.snake), w.pointsPerFood >>]

(***************************************************************************)
(* Movement and collision                                                  *)
(***************************************************************************)
checkCollisionSkipsHead(w, pos) ==
  \E i \in 2..Len(w.snake) :
    w.snake[i].line = pos.line /\ w.snake[i].char = pos.char

checkCollisionTailFree(w, pos) ==
  \E i \in 1..(Len(w.snake) - 1) :
    w.snake[i].line = pos.line /\ w.snake[i].char = pos.char

checkCollision(w, pos) ==
  \E i \in 1..Len(w.snake) :
    w.snake[i].line = pos.line /\ w.snake[i].char = pos.char

getNewHeadKeepsColumn(w, head) ==
  CASE w.direction = "up" ->
         Cell(IF head.line - 1 < 0 THEN lineCount - 1 ELSE head.line - 1, head.char)
    [] w.direction = "down" ->
         Cell(IF head.line + 1 >= lineCount THEN 0 ELSE head.line + 1, head.char)
    [] w.direction = "left" ->
         Cell(head.line, IF head.char - 1 < 0 THEN w.maxColumn - 1 ELSE head.char - 1)
    [] w.direction = "right" ->
         Cell(head.line, IF head.char + 1 >= w.maxColumn THEN 0 ELSE head.char + 1)

getNewHeadLineWrap(w, head) ==
  CASE w.direction = "up" ->
         LET l == IF head.line - 1 < 0 THEN lineCount - 1 ELSE head.line - 1
         IN Cell(l, Min(head.char, Min(Len(lineText(l)), w.maxColumn - 1)))
    [] w.direction = "down" ->
         LET l == IF head.line + 1 >= lineCount THEN 0 ELSE head.line + 1
         IN Cell(l, Min(head.char, Min(Len(lineText(l)), w.maxColumn - 1)))
    [] w.direction = "left" ->
         LET l == IF head.line - 1 < 0 THEN lineCount - 1 ELSE head.line - 1
         IN IF head.char - 1 < 0 THEN Cell(l, Len(lineText(l)))
            ELSE Cell(head.line, head.char - 1)
    [] w.direction = "right" ->
         LET l == IF head.line + 1 >= lineCount THEN 0 ELSE head.line + 1
         IN IF head.char + 1 > Len(lineText(head.line)) THEN Cell(l, 0)
            ELSE Cell(head.line, head.char + 1)

getNewHeadNoWrap(w, head) ==
  CASE w.direction = "up" ->
         LET l == IF head.line - 1 < 0 THEN lineCount - 1 ELSE head.line - 1
         IN Cell(l, Min(head.char, Min(Len(lineText(l)), w.maxColumn - 1)))
    [] w.direction = "down" ->
         LET l == IF head.line + 1 >= lineCount THEN 0 ELSE head.line + 1
         IN Cell(l, Min(head.char, Min(Len(lineText(l)), w.maxColumn - 1)))
    [] w.direction = "left" -> Cell(head.line, head.char - 1)
    [] w.direction = "right" -> Cell(head.line, head.char + 1)

getNewHead(w, head) ==
  CASE w.direction = "up" ->
         LET l == IF head.line - 1 < 0 THEN lineCount - 1 ELSE head.line - 1
         IN Cell(l, Min(head.char, Min(Len(lineText(l)), w.maxColumn - 1)))
    [] w.direction = "down" ->
         LET l == IF head.line + 1 >= lineCount THEN 0 ELSE head.line + 1
         IN Cell(l, Min(head.char, Min(Len(lineText(l)), w.maxColumn - 1)))
    [] w.direction = "left" ->
         Cell(head.line, IF head.char - 1 < 0 THEN w.maxColumn - 1 ELSE head.char - 1)
    [] w.direction = "right" ->
         Cell(head.line, IF head.char + 1 >= w.maxColumn THEN 0 ELSE head.char + 1)

\* lineText.match(pattern).index for a single-line pattern: the 0-based index
\* of the first occurrence of its marker, or -1 when there is no match.
MatchIndex(text, marker) ==
  LET hits == { i \in 0..(Len(text) - Len(marker)) :
                  \A k \in 1..Len(marker) : text[i + k] = marker[k] }
  IN IF hits = {} THEN -1 ELSE CHOOSE i \in hits : \A j \in hits : i <= j

isInComment(w, text, charPos) ==
  \E p \in 1..Len(w.commentPatterns.single) :
    /\ MatchIndex(text, w.commentPatterns.single[p]) >= 0
    /\ charPos >= MatchIndex(text, w.commentPatterns.single[p])

\* The cell holds a character that is not white space.
HasText(pos) ==
  /\ pos.line >= 0 /\ pos.line < lineCount
  /\ ~TrimmedEmpty(lineText(pos.line))
  /\ pos.char >= 0 /\ pos.char < Len(lineText(pos.line))
  /\ NonBlank(lineText(pos.line)[pos.char + 1])

checkTextCollisionAnyColumn(w, pos) ==
  IF pos.line < 0 \/ pos.line >= lineCount THEN w
  ELSE IF pos.char >= 0 /\ pos.char < Len(lineText(pos.line))
  THEN LET b == IF isInComment(w, lineText(pos.line), pos.char)
                THEN updateStatusBar([w EXCEPT !.score = @ + (w.pointsPerFood \div 2)])
                ELSE w
       IN [b EXCEPT !.hiddenLines = @ \cup {pos.line},
                    !.timers = Append(@, pos.line)]
  ELSE w

checkTextCollisionBonusOnly(w, pos) ==
  IF pos.line < 0 \/ pos.line >= lineCount THEN w
  ELSE IF TrimmedEmpty(lineText(pos.line)) THEN w
  ELSE IF /\ pos.char >= 0 /\ pos.char < Len(lineText(pos.line))
          /\ NonBlank(lineText(pos.line)[pos.char + 1])
  THEN IF isInComment(w, lineText(pos.line), pos.char)
       THEN updateStatusBar([w EXCEPT !.score = @ + (w.pointsPerFood \div 2)])
       ELSE [w EXCEPT !.hiddenLines = @ \cup {pos.line},
                      !.timers = Append(@, pos.line)]
  ELSE w

checkTextCollision(w, pos) ==
  IF pos.line < 0 \/ pos.line >= lineCount THEN w
  ELSE IF TrimmedEmpty(lineText(pos.line)) THEN w
  ELSE IF /\ pos.char >= 0 /\ pos.char < Len(lineText(pos.line))
          /\ NonBlank(lineText(pos.line)[pos.char + 1])
  THEN LET b == IF isInComment(w, lineText(pos.line), pos.char)
                THEN updateStatusBar([w EXCEPT !.score = @ + (w.pointsPerFood \div 2)])
                ELSE w
       IN [b EXCEPT !.hiddenLines = @ \cup {pos.line},
                    !.timers = Append(@, pos.line)]
  ELSE w

(***************************************************************************)
(* spawnFood: the set of session states it can leave, over all draws of    *)
(* Math.random().                                                          *)
(***************************************************************************)
Samples(n) == { (k * n) \div RandDen : k \in 0..(RandDen - 1) }

\* The cells one attempt can draw: line = floor(random * lineCount), then
\* char = floor(random * max(10, length of that line)).
FoodCandidates ==
  UNION { { Cell(l, c) : c \in Samples(Max(MinFoodWidth, Len(lineText(l)))) }
          : l \in Samples(lineCount) }

FallbackCell == Cell(lineCount \div 2, FallbackChar)

spawnFoodLater(w) == { [w EXCEPT !.food = <<>>] }

spawnFoodNoFallback(w) ==
  { [w EXCEPT !.food = <<p>>] : p \in { q \in FoodCandidates : ~checkCollision(w, q) } }
  \cup (IF \E q \in FoodCandidates : checkCollision(w, q) THEN {w} ELSE {})

\* The loop makes at most MaxAttempts draws and takes the first free cell.
\* Any free candidate can be that cell; the loop runs out, and the fallback
\* cell is assigned unchecked, only if every draw hit an occupied cell.
spawnFood(w) ==
  LET free == { p \in FoodCandidates : ~checkCollision(w, p) }
      found == IF MaxAttempts > 0 THEN { [w EXCEPT !.food = <<p>>] : p \in free } ELSE {}
      exhausted == IF MaxAttempts = 0 \/ free # FoodCandidates
                   THEN { [w EXCEPT !.food = <<FallbackCell>>] } ELSE {}
  IN found \cup exhausted

(***************************************************************************)
(* start and the handlers it registers                                     *)
(***************************************************************************)
initializeSnakeAtLineEnd(w) ==
  LET startChar == Len(lineText(0))
  IN [w EXCEPT !.snake = << Cell(0, startChar), Cell(0, startChar + 1),
                            Cell(0, startChar + 2) >>,
               !.direction = "left"]

initializeSnake(w) ==
  LET startChar == Min(Len(lineText(0)), w.maxColumn - StartMargin)
  IN [w EXCEPT !.snake = << Cell(0, startChar), Cell(0, startChar + 1),
                            Cell(0, startChar + 2) >>,
               !.direction = "left"]

setupKeyBindings(w) ==
  [w EXCEPT !.commands = TRUE, !.keyListener = "disposable",
            !.snakeGameActive = TRUE]

start(w) ==
  { showInformationMessage(render(updateStatusBar(
      [k EXCEPT !.gameLoop = "interval", !.interval = TRUE,
                !.statusBar.shown = TRUE])))
    : k \in { setupKeyBindings(f)
              : f \in spawnFood(initializeSnake([w EXCEPT !.isRunning = TRUE])) } }

onGameOver(w) == [w EXCEPT !.gameOverCallback = "callback"]

disposeKeepsHandlers(w) ==
  LET a == [w EXCEPT !.isRunning = FALSE]
      b == IF a.gameLoop # "null" THEN [a EXCEPT !.interval = FALSE] ELSE a
      d == clearDecorations(b)
  IN [d EXCEPT !.statusBar.disposed = TRUE, !.statusBar.shown = FALSE,
               !.snakeGameActive = FALSE]

disposeLeavesRunning(w) ==
  LET b == IF w.gameLoop # "null" THEN [w EXCEPT !.interval = FALSE] ELSE w
      c == IF b.keyListener # "null" THEN [b EXCEPT !.commands = FALSE] ELSE b
      d == clearDecorations(c)
  IN [d EXCEPT !.statusBar.disposed = TRUE, !.statusBar.shown = FALSE,
               !.snakeGameActive = FALSE]

dispose(w) ==
  LET a == [w EXCEPT !.isRunning = FALSE]
      b == IF a.gameLoop # "null" THEN [a EXCEPT !.interval = FALSE] ELSE a
      c == IF b.keyListener # "null" THEN [b EXCEPT !.commands = FALSE] ELSE b
      d == clearDecorations(c)
  IN [d EXCEPT !.statusBar.disposed = TRUE, !.statusBar.shown = FALSE,
               !.snakeGameActive = FALSE]

\* The listener the extension registers: currentGame = undefined.
InvokeCallback(w) ==
  IF w.gameOverCallback # "null"
  THEN [w EXCEPT !.currentGame = "undefined",
                 !.listenerSaw = Append(@, [isRunning |-> w.isRunning,
                                            interval |-> w.interval,
                                            commands |-> w.commands,
                                            applied |-> w.applied])]
  ELSE w

gameOverResetsSnake(w) ==
  LET a == [w EXCEPT !.isRunning = FALSE, !.snake = <<>>]
      b == IF a.gameLoop # "null"
           THEN [a EXCEPT !.interval = FALSE, !.gameLoop = "null"] ELSE a
  IN InvokeCallback(dispose(showInformationMessage(b)))

gameOverCallbackFirst(w) ==
  LET a == [w EXCEPT !.isRunning = FALSE]
      b == IF a.gameLoop # "null"
           THEN [a EXCEPT !.interval = FALSE, !.gameLoop = "null"] ELSE a
  IN dispose(InvokeCallback(showInformationMessage(b)))

gameOver(w) ==
  LET a == [w EXCEPT !.isRunning = FALSE]
      b == IF a.gameLoop # "null"
           THEN [a EXCEPT !.interval = FALSE, !.gameLoop = "null"] ELSE a
  IN InvokeCallback(dispose(showInformationMessage(b)))

stopGameResetsScore(w) ==
  IF ~w.isRunning THEN w
  ELSE InvokeCallback(dispose(showInformationMessage([w EXCEPT !.score = 0])))

stopGameSilent(w) ==
  IF ~w.isRunning THEN w ELSE dispose(showInformationMessage(w))

stopGame(w) ==
  IF ~w.isRunning THEN w ELSE InvokeCallback(dispose(showInformationMessage(w)))

togglePause(w) ==
  IF ~w.isRunning THEN w
  ELSE showInformationMessage(updateStatusBar([w EXCEPT !.isPaused = ~w.isPaused]))

changeDirectionUnguarded(w, d) ==
  IF w.isRunning /\ ~w.isPaused THEN [w EXCEPT !.direction = d] ELSE w

\* The handlers of snakegame.up/down/left/right, with d the heading each sets.
changeDirection(w, d) ==
  IF w.isRunning /\ ~w.isPaused /\ w.direction # Opposite(d)
  THEN [w EXCEPT !.direction = d] ELSE w

(***************************************************************************)
(* update: one tick of the game loop                                       *)
(***************************************************************************)
IsFood(w, pos) ==
  w.food # <<>> /\ pos.line = w.food[1].line /\ pos.char = w.food[1].char

updatePopsAlways(w) ==
  IF ~w.isRunning \/ w.isPaused THEN {w}
  ELSE LET newHead == getNewHead(w, w.snake[1])
       IN IF checkCollision(w, newHead) THEN { gameOver(w) }
          ELSE LET grown == [w EXCEPT !.snake = <<newHead>> \o w.snake]
                   fed == IF IsFood(grown, newHead)
                          THEN { updateStatusBar(f)
                                 : f \in spawnFood([grown EXCEPT
                                                    !.score = @ + grown.pointsPerFood]) }
                          ELSE { grown }
               IN { render(checkTextCollision(
                      [f EXCEPT !.snake = SubSeq(f.snake, 1, Len(f.snake) - 1)], newHead))
                    : f \in fed }

updatePushesHead(w) ==
  IF ~w.isRunning \/ w.isPaused THEN {w}
  ELSE LET newHead == getNewHead(w, w.snake[1])
       IN IF checkCollision(w, newHead) THEN { gameOver(w) }
          ELSE LET grown == [w EXCEPT !.snake = w.snake \o <<newHead>>]
                   fed == IF IsFood(grown, newHead)
                          THEN { updateStatusBar(f)
                                 : f \in spawnFood([grown EXCEPT
                                                    !.score = @ + grown.pointsPerFood]) }
                          ELSE { [grown EXCEPT
                                  !.snake = SubSeq(grown.snake, 1, Len(grown.snake) - 1)] }
               IN { render(checkTextCollision(f, newHead)) : f \in fed }

updateChecksTextFirst(w) ==
  IF ~w.isRunning \/ w.isPaused THEN {w}
  ELSE LET newHead == getNewHead(w, w.snake[1])
       IN IF checkCollision(w, newHead) THEN { gameOver(checkTextCollision(w, newHead)) }
          ELSE LET grown == [w EXCEPT !.snake = <<newHead>> \o w.snake]
                   fed == IF IsFood(grown, newHead)
                          THEN { updateStatusBar(f)
                                 : f \in spawnFood([grown EXCEPT
                                                    !.score = @ + grown.pointsPerFood]) }
                          ELSE { [grown EXCEPT
                                  !.snake = SubSeq(grown.snake, 1, Len(grown.snake) - 1)] }
               IN { render(checkTextCollision(f, newHead)) : f \in fed }

updateUnchecked(w) ==
  IF ~w.isRunning \/ w.isPaused THEN {w}
  ELSE LET newHead == getNewHead(w, w.snake[1])
           grown == [w EXCEPT !.snake = <<newHead>> \o w.snake]
           fed == IF IsFood(grown, newHead)
                  THEN { updateStatusBar(f)
                         : f \in spawnFood([grown EXCEPT
                                            !.score = @ + grown.pointsPerFood]) }
                  ELSE { [grown EXCEPT
                          !.snake = SubSeq(grown.snake, 1, Len(grown.snake) - 1)] }
       IN { render(checkTextCollision(f, newHead)) : f \in fed }

updateIgnoresPause(w) ==
  IF ~w.isRunning THEN {w}
  ELSE LET newHead == getNewHead(w, w.snake[1])
       IN IF checkCollision(w, newHead) THEN { gameOver(w) }
          ELSE LET grown == [w EXCEPT !.snake = <<newHead>> \o w.snake]
                   fed == IF IsFood(grown, newHead)
                          THEN { updateStatusBar(f)
                                 : f \in spawnFood([grown EXCEPT
                                                    !.score = @ + grown.pointsPerFood]) }
                          ELSE { [grown EXCEPT
                                  !.snake = SubSeq(grown.snake, 1, Len(grown.snake) - 1)] }
               IN { render(checkTextCollision(f, newHead)) : f \in fed }

update(w) ==
  IF ~w.isRunning \/ w.isPaused THEN {w}
  ELSE LET newHead == getNewHead(w, w.snake[1])
       IN IF checkCollision(w, newHead) THEN { gameOver(w) }
          ELSE LET grown == [w EXCEPT !.snake = <<newHead>> \o w.snake]
                   fed == IF IsFood(grown, newHead)
                          THEN { updateStatusBar(f)
                                 : f \in spawnFood([grown EXCEPT
                                                    !.score = @ + grown.pointsPerFood]) }
                          ELSE { [grown EXCEPT
                                  !.snake = SubSeq(grown.snake, 1, Len(grown.snake) - 1)] }
               IN { render(checkTextCollision(f, newHead)) : f \in fed }

expireClearsAll(w, line) == render([w EXCEPT !.hiddenLines = {}])

expireKeepsLine(w, line) == render(w)

\* The hidden-line expiry callback scheduled by checkTextCollision for `line`.
expire(w, line) == render([w EXCEPT !.hiddenLines = @ \ {line}])

(***************************************************************************)
(* The extension's snakegame.start command (activate).                     *)
(***************************************************************************)
ReplacedNotDisposed(w) == w

\* What the command leaves of the session instance it finds: currentGame, if
\* defined, is disposed.
Replaced(w) == IF w.currentGame # "undefined" THEN dispose(w) ELSE w

\* The host state of a session object that has just been constructed: it has
\* no interval, no pending timer, no registered handler, no decoration, and
\* its listener has not been invoked.
NewHost ==
  [interval |-> FALSE, timers |-> <<>>, commands |-> FALSE, typeCommand |-> FALSE,
   applied |-> EmptyBag, listenerSaw |-> <<>>]

startCommandDisposesFirst(w) ==
  LET prev == Replaced(w)
      fresh == constructor([f \in DOMAIN prev |->
                              IF f \in DOMAIN Fields THEN Fields[f]
                              ELSE IF f \in DOMAIN NewHost THEN NewHost[f]
                              ELSE prev[f]])
  IN IF ~activeEditor THEN { showErrorMessage(prev) }
     ELSE { onGameOver(s) : s \in start([fresh EXCEPT !.currentGame = "game"]) }

\* The session instances the command can leave as currentGame.
startCommand(w) ==
  IF ~activeEditor THEN { showErrorMessage(w) }
  ELSE LET prev == Replaced(w)
           fresh == constructor([f \in DOMAIN prev |->
                                   IF f \in DOMAIN Fields THEN Fields[f]
                                   ELSE IF f \in DOMAIN NewHost THEN NewHost[f]
                                   ELSE prev[f]])
       IN { onGameOver(s) : s \in start([fresh EXCEPT !.currentGame = "game"]) }

(***************************************************************************)
(* Initial state: the extension is activated, no game has been created.    *)
(***************************************************************************)
\* lastOp: the operation, the heading a directional command asked for, the
\* outcome, and what the head of an advancing tick landed on.
NoOp == [op |-> "none", arg |-> "none", outcome |-> "none", hit |-> "none"]

Init ==
  /\ doc \in Documents
  /\ activeEditor \in BOOLEAN
  /\ currentGame = "undefined"
  /\ snake = Fields.snake
  /\ direction = Fields.direction
  /\ food = Fields.food
  /\ score = Fields.score
  /\ isRunning = Fields.isRunning
  /\ isPaused = Fields.isPaused
  /\ gameLoop = Fields.gameLoop
  /\ keyListener = Fields.keyListener
  /\ snakeDecorations = Fields.snakeDecorations
  /\ foodDecoration = Fields.foodDecoration
  /\ hiddenLinesDecoration = Fields.hiddenLinesDecoration
  /\ hiddenLines = Fields.hiddenLines
  /\ gameOverCallback = Fields.gameOverCallback
  /\ statusBar = Fields.statusBar
  /\ pointsPerFood = Fields.pointsPerFood
  /\ commentPatterns = Fields.commentPatterns
  /\ maxColumn = Fields.maxColumn
  /\ interval = FALSE
  /\ timers = <<>>
  /\ commands = FALSE
  /\ typeCommand = FALSE
  /\ applied = EmptyBag
  /\ notices = <<>>
  /\ listenerSaw = <<>>
  /\ old = <<>>
  /\ snakeGameActive = FALSE
  /\ moves = 0
  /\ tickHeading = "none"
  /\ commentHits = 0
  /\ lastOp = NoOp

(***************************************************************************)
(* Actions                                                                 *)
(***************************************************************************)
Advancing == isRunning /\ ~isPaused

\* The start command while no session instance has been constructed.
StartCommand ==
  /\ ~statusBar.created
  /\ \E w \in startCommand(Begin) : Commit(w)
  /\ lastOp' = [NoOp EXCEPT !.op = "start",
                            !.outcome = IF activeEditor THEN "started" ELSE "no-editor"]
  /\ UNCHANGED << doc, activeEditor, old, moves, tickHeading, commentHits >>

\* The hit of the head cell of w: what checkTextCollision finds there.
HitOf(w) ==
  IF ~HasText(w.snake[1]) THEN "none"
  ELSE IF isInComment(w, lineText(w.snake[1].line), w.snake[1].char) THEN "comment"
  ELSE "text"

\* The game loop's interval fires and runs update().
Tick ==
  /\ interval
  /\ Advancing => moves < MaxMoves
  /\ \E w \in update(Begin) :
       /\ Commit(w)
       /\ lastOp' = [op |-> "tick", arg |-> "none",
                     outcome |-> IF ~Advancing THEN "idle"
                                 ELSE IF ~w.isRunning THEN "collision"
                                 ELSE IF Len(w.snake) > Len(snake) THEN "capture"
                                 ELSE "move",
                     hit |-> IF Advancing /\ w.isRunning THEN HitOf(w) ELSE "none"]
  /\ moves' = IF Advancing THEN moves + 1 ELSE moves
  /\ tickHeading' = IF Advancing THEN direction ELSE tickHeading
  /\ commentHits' = IF lastOp'.hit = "comment" THEN commentHits + 1 ELSE commentHits
  /\ UNCHANGED << doc, activeEditor, old >>

\* The start command while a session instance exists: the instance is kept
\* among the replaced ones (its pending timers still refer to it) and
\* currentGame becomes a new one.
RestartCommand ==
  /\ statusBar.created
  /\ activeEditor
  /\ Len(old) + 1 < MaxSessions
  /\ old' = Append(old, Replaced(Begin))
  /\ \E w \in startCommand(Begin) : Commit(w)
  /\ lastOp' = [NoOp EXCEPT !.op = "restart", !.outcome = "started"]
  /\ commentHits' = 0
  /\ UNCHANGED << doc, activeEditor, moves, tickHeading >>

\* The start command while a session instance exists and no editor is active.
StartWithoutEditor ==
  /\ statusBar.created
  /\ ~activeEditor
  /\ \E w \in startCommand(Begin) : Commit(w)
  /\ lastOp' = [NoOp EXCEPT !.op = "start", !.outcome = "no-editor"]
  /\ UNCHANGED << doc, activeEditor, old, moves, tickHeading, commentHits >>

\* The user opens or focuses an editor on the document, or leaves no editor
\* active; the session keeps the editor it was constructed with.
EditorChange ==
  /\ activeEditor' = ~activeEditor
  /\ lastOp' = [NoOp EXCEPT !.op = "editor"]
  /\ UNCHANGED << doc, currentGame, snake, direction, food, score,
                  isRunning, isPaused, gameLoop, keyListener, snakeDecorations,
                  foodDecoration, hiddenLinesDecoration, hiddenLines,
                  gameOverCallback, statusBar, pointsPerFood, commentPatterns,
                  maxColumn, interval, timers, commands, typeCommand, applied,
                  notices, listenerSaw, old, snakeGameActive, moves, tickHeading,
                  commentHits >>

\* The sessions among the replaced ones that still have a timer pending.
Waiting == { i \in 1..Len(old) : old[i].timers # <<>> }

\* The oldest pending hidden-line expiry timer of a replaced session fires.
\* All delays are equal, so the timers of an older session fire first.
ExpireOld ==
  /\ Waiting # {}
  /\ LET i == CHOOSE k \in Waiting : \A j \in Waiting : k <= j
     IN old' = [old EXCEPT ![i] = expire([@ EXCEPT !.timers = Tail(@)], Head(@.timers))]
  /\ lastOp' = [NoOp EXCEPT !.op = "expire-old"]
  /\ notices' = <<>>
  /\ UNCHANGED << doc, activeEditor, currentGame, snake, direction, food, score,
                  isRunning, isPaused, gameLoop, keyListener, snakeDecorations,
                  foodDecoration, hiddenLinesDecoration, hiddenLines,
                  gameOverCallback, statusBar, pointsPerFood, commentPatterns,
                  maxColumn, interval, timers, commands, typeCommand, applied,
                  listenerSaw, snakeGameActive, moves, tickHeading, commentHits >>

\* The oldest pending hidden-line expiry timer of currentGame's session fires.
Expire ==
  /\ timers # <<>>
  /\ Waiting = {}
  /\ Commit(expire([Begin EXCEPT !.timers = Tail(@)], Head(timers)))
  /\ lastOp' = [NoOp EXCEPT !.op = "expire"]
  /\ UNCHANGED << doc, activeEditor, old, moves, tickHeading, commentHits >>

\* A snakegame.up/down/left/right command.  A command whose handler is not
\* registered does nothing.
Direction(d) ==
  IF commands
  THEN /\ Commit(changeDirection(Begin, d))
       /\ lastOp' = [NoOp EXCEPT !.op = "direction", !.arg = d,
                       !.outcome = IF Advancing /\ direction # Opposite(d)
                                   THEN "accepted" ELSE "rejected"]
       /\ UNCHANGED << doc, activeEditor, old, moves, tickHeading, commentHits >>
  ELSE UNCHANGED vars

Up == Direction("up")
Down == Direction("down")
Left == Direction("left")
Right == Direction("right")

Pause ==
  IF commands
  THEN /\ Commit(togglePause(Begin))
       /\ lastOp' = [NoOp EXCEPT !.op = "pause", !.outcome = "done"]
       /\ UNCHANGED << doc, activeEditor, old, moves, tickHeading, commentHits >>
  ELSE UNCHANGED vars

Stop ==
  IF commands
  THEN /\ Commit(stopGame(Begin))
       /\ lastOp' = [NoOp EXCEPT !.op = "stop", !.outcome = "done"]
       /\ UNCHANGED << doc, activeEditor, old, moves, tickHeading, commentHits >>
  ELSE UNCHANGED vars

Exit ==
  IF commands
  THEN /\ Commit(gameOver(Begin))
       /\ lastOp' = [NoOp EXCEPT !.op = "exit", !.outcome = "done"]
       /\ UNCHANGED << doc, activeEditor, old, moves, tickHeading, commentHits >>
  ELSE UNCHANGED vars

Next ==
  \/ StartCommand
  \/ Tick
  \/ Expire
  \/ Up
  \/ Down
  \/ Left
  \/ Right
  \/ Pause
  \/ Stop
  \/ Exit

\* One session instance from its construction on.
Spec == Init /\ [][Next]_vars

\* With the start command repeated while a session instance exists.  The
\* snake is not steered here: the heading commands are left out.
NextRestart ==
  \/ StartCommand
  \/ Tick
  \/ Expire
  \/ Pause
  \/ Stop
  \/ Exit
  \/ RestartCommand
  \/ ExpireOld

SpecRestart == Init /\ [][NextRestart]_vars

\* What a step of Expire does to timers and lastOp.  A step of Next is a
\* TimerFires step exactly if it is an Expire step, and TimerFires is enabled
\* exactly if Expire is.
TimerFires ==
  /\ timers # <<>>
  /\ Waiting = {}
  /\ timers' = Tail(timers)
  /\ lastOp' = [NoOp EXCEPT !.op = "expire"]

\* One session instance, with every scheduled timer firing in the end: the
\* host runs a setTimeout callback once its delay has passed.
SpecFair == Spec /\ WF_<<timers, lastOp>>(TimerFires)

\* With the active editor coming and going, and the start command given while
\* none is active; it is not given again while one is.
NextEditor ==
  \/ Next
  \/ EditorChange
  \/ StartWithoutEditor

SpecEditor == Init /\ [][NextEditor]_vars

(***************************************************************************)
(* The older compiled variant, src/unnamed/part_000 lines 38-350.  Its      *)
(* checkCollision, spawnFood, render and clearDecorations are the same code *)
(* as the current variant's and are modelled by the same definitions.  It   *)
(* has no pause, no comment patterns and no maxColumn: isPaused,            *)
(* commentPatterns and maxColumn keep their initial values.  The document   *)
(* is not edited: what default:type would type is left out.                 *)
(***************************************************************************)
\* The documents of Documents, and one whose first line has one character.
DocumentsOlder ==
  Documents \cup
    { [languageId |-> "plaintext", lineCount |-> 3, lines |-> << <<"a">> >>,
       visibleRanges |-> <<>>] }

\* constructor(editor)
constructorOlder(w) ==
  [w EXCEPT !.direction = "right",
            !.statusBar = [created |-> TRUE, shown |-> FALSE, disposed |-> FALSE,
                           text |-> <<>>],
            !.pointsPerFood = calculatePoints(lineCount)]

updateStatusBarOlder(w) ==
  [w EXCEPT !.statusBar.text = << "plain", w.score, Len(w.snake), w.pointsPerFood >>]

initializeSnakeOlder(w) ==
  LET startChar == Max(0, Len(lineText(0)) - 1)
  IN [w EXCEPT !.snake = << Cell(0, startChar), Cell(0, Max(0, startChar - 1)),
                            Cell(0, Max(0, startChar - 2)) >>]

\* The 'type' handler is kept in keyListener; the snakegame.* handlers are
\* kept in a local array, and `commands.forEach(cmd => this.keyListener?.dispose)`
\* calls nothing.
setupKeyBindingsOlder(w) ==
  [w EXCEPT !.keyListener = "disposable", !.typeCommand = TRUE,
            !.snakeGameActive = TRUE, !.commands = TRUE]

\* The handlers of snakegame.up/down/left/right.
changeDirectionOlder(w, d) ==
  IF w.direction # Opposite(d) THEN [w EXCEPT !.direction = d] ELSE w

startOlder(w) ==
  { showInformationMessage(render(updateStatusBarOlder(
      [k EXCEPT !.gameLoop = "interval", !.interval = TRUE,
                !.statusBar.shown = TRUE])))
    : k \in { setupKeyBindingsOlder(f)
              : f \in spawnFood(initializeSnakeOlder([w EXCEPT !.isRunning = TRUE])) } }

getNewHeadOlder(w, head) ==
  CASE w.direction = "up" ->
         Cell(IF head.line - 1 < 0 THEN lineCount - 1 ELSE head.line - 1, head.char)
    [] w.direction = "down" ->
         Cell(IF head.line + 1 >= lineCount THEN 0 ELSE head.line + 1, head.char)
    [] w.direction = "left" ->
         IF head.char - 1 < 0
         THEN LET l == IF head.line - 1 < 0 THEN lineCount - 1 ELSE head.line - 1
              IN Cell(l, Max(0, Len(lineText(l))))
         ELSE Cell(head.line, head.char - 1)
    [] w.direction = "right" ->
         IF head.char + 1 > Len(lineText(head.line)) + RightOverhang
         THEN Cell(IF head.line + 1 >= lineCount THEN 0 ELSE head.line + 1, 0)
         ELSE Cell(head.line, head.char + 1)

checkTextCollisionOlder(w, pos) ==
  IF pos.line < 0 \/ pos.line >= lineCount THEN w
  ELSE IF TrimmedEmpty(lineText(pos.line)) THEN w
  ELSE IF /\ pos.char >= 0 /\ pos.char < Len(lineText(pos.line))
          /\ NonBlank(lineText(pos.line)[pos.char + 1])
  THEN [w EXCEPT !.hiddenLines = @ \cup {pos.line}, !.timers = Append(@, pos.line)]
  ELSE w

disposeOlder(w) ==
  LET a == [w EXCEPT !.isRunning = FALSE]
      b == IF a.gameLoop # "null" THEN [a EXCEPT !.interval = FALSE] ELSE a
      c == IF b.keyListener # "null" THEN [b EXCEPT !.typeCommand = FALSE] ELSE b
      d == clearDecorations(c)
  IN [d EXCEPT !.statusBar.disposed = TRUE, !.statusBar.shown = FALSE,
               !.snakeGameActive = FALSE]

gameOverOlder(w) ==
  LET a == [w EXCEPT !.isRunning = FALSE]
      b == IF a.gameLoop # "null"
           THEN [a EXCEPT !.interval = FALSE, !.gameLoop = "null"] ELSE a
  IN InvokeCallback(disposeOlder(showInformationMessage(b)))

updateOlder(w) ==
  IF ~w.isRunning THEN {w}
  ELSE LET newHead == getNewHeadOlder(w, w.snake[1])
       IN IF checkCollision(w, newHead) THEN { gameOverOlder(w) }
          ELSE LET grown == [w EXCEPT !.snake = <<newHead>> \o w.snake]
                   fed == IF IsFood(grown, newHead)
                          THEN { updateStatusBarOlder(f)
                                 : f \in spawnFood([grown EXCEPT
                                                    !.score = @ + grown.pointsPerFood]) }
                          ELSE { [grown EXCEPT
                                  !.snake = SubSeq(grown.snake, 1, Len(grown.snake) - 1)] }
               IN { render(checkTextCollisionOlder(f, newHead)) : f \in fed }

\* The 'type' handler, for the text it is given: "escape" or anything else.
typeOlder(w, text) ==
  IF ~w.isRunning THEN w
  ELSE IF text = "escape" THEN gameOverOlder(w)
  ELSE w

\* The extension's start command, as activate gives it, on the older class.
startCommandOlder(w) ==
  IF ~activeEditor THEN { showErrorMessage(w) }
  ELSE { onGameOver(s)
         : s \in startOlder(constructorOlder([w EXCEPT !.currentGame = "game"])) }

InitOlder ==
  /\ doc \in DocumentsOlder
  /\ activeEditor \in BOOLEAN
  /\ currentGame = "undefined"
  /\ snake = Fields.snake
  /\ direction = "right"
  /\ food = Fields.food
  /\ score = Fields.score
  /\ isRunning = Fields.isRunning
  /\ isPaused = Fields.isPaused
  /\ gameLoop = Fields.gameLoop
  /\ keyListener = Fields.keyListener
  /\ snakeDecorations = Fields.snakeDecorations
  /\ foodDecoration = Fields.foodDecoration
  /\ hiddenLinesDecoration = Fields.hiddenLinesDecoration
  /\ hiddenLines = Fields.hiddenLines
  /\ gameOverCallback = Fields.gameOverCallback
  /\ statusBar = Fields.statusBar
  /\ pointsPerFood = Fields.pointsPerFood
  /\ commentPatterns = Fields.commentPatterns
  /\ maxColumn = Fields.maxColumn
  /\ interval = FALSE
  /\ timers = <<>>
  /\ commands = FALSE
  /\ typeCommand = FALSE
  /\ applied = EmptyBag
  /\ notices = <<>>
  /\ listenerSaw = <<>>
  /\ old = <<>>
  /\ snakeGameActive = FALSE
  /\ moves = 0
  /\ tickHeading = "none"
  /\ commentHits = 0
  /\ lastOp = NoOp

StartOlder ==
  /\ ~statusBar.created
  /\ \E w \in startCommandOlder(Begin) : Commit(w)
  /\ lastOp' = [NoOp EXCEPT !.op = "start",
                            !.outcome = IF activeEditor THEN "started" ELSE "no-editor"]
  /\ UNCHANGED << doc, activeEditor, old, moves, tickHeading, commentHits >>

\* The game loop's interval fires and runs update().
TickOlder ==
  /\ interval
  /\ moves < MaxMoves
  /\ \E w \in updateOlder(Begin) :
       /\ Commit(w)
       /\ lastOp' = [op |-> "tick", arg |-> "none",
                     outcome |-> IF ~w.isRunning THEN "collision"
                                 ELSE IF Len(w.snake) > Len(snake) THEN "capture"
                                 ELSE "move",
                     hit |-> IF w.isRunning /\ HasText(w.snake[1]) THEN "text" ELSE "none"]
  /\ moves' = moves + 1
  /\ tickHeading' = direction
  /\ UNCHANGED << doc, activeEditor, old, commentHits >>

\* The oldest pending hidden-line expiry timer fires; the callback is the
\* same code as the current variant's.
ExpireOlder ==
  /\ timers # <<>>
  /\ Commit(expire([Begin EXCEPT !.timers = Tail(@)], Head(timers)))
  /\ lastOp' = [NoOp EXCEPT !.op = "expire"]
  /\ UNCHANGED << doc, activeEditor, old, moves, tickHeading, commentHits >>

\* A snakegame.up/down/left/right command.
DirectionOlder(d) ==
  IF commands
  THEN /\ Commit(changeDirectionOlder(Begin, d))
       /\ lastOp' = [NoOp EXCEPT !.op = "direction", !.arg = d,
                       !.outcome = IF direction # Opposite(d)
                                   THEN "accepted" ELSE "rejected"]
       /\ UNCHANGED << doc, activeEditor, old, moves, tickHeading, commentHits >>
  ELSE UNCHANGED vars

UpOlder == DirectionOlder("up")
DownOlder == DirectionOlder("down")
LeftOlder == DirectionOlder("left")
RightOlder == DirectionOlder("right")

\* The snakegame.exit command.
ExitOlder ==
  /\ Len(listenerSaw) < MaxSignals
  /\ IF commands
     THEN /\ Commit(gameOverOlder(Begin))
          /\ lastOp' = [NoOp EXCEPT !.op = "exit", !.outcome = "done"]
          /\ UNCHANGED << doc, activeEditor, old, moves, tickHeading, commentHits >>
     ELSE UNCHANGED vars

\* The escape character arrives at the 'type' command.
TypeEscapeOlder ==
  IF typeCommand
  THEN /\ Commit(typeOlder(Begin, "escape"))
       /\ lastOp' = [NoOp EXCEPT !.op = "type", !.outcome = "done"]
       /\ UNCHANGED << doc, activeEditor, old, moves, tickHeading, commentHits >>
  ELSE UNCHANGED vars

NextOlder ==
  \/ StartOlder
  \/ TickOlder
  \/ ExpireOlder
  \/ UpOlder
  \/ DownOlder
  \/ LeftOlder
  \/ RightOlder
  \/ ExitOlder
  \/ TypeEscapeOlder

\* One session of the older variant from its construction on.
SpecOlder == InitOlder /\ [][NextOlder]_vars

(***************************************************************************)
(* Properties                                                              *)
(***************************************************************************)
\* Everything but the heading and the record of the latest operation.
OtherState ==
  << doc, activeEditor, currentGame, snake, food, score, isRunning, isPaused,
     gameLoop, keyListener, snakeDecorations, foodDecoration,
     hiddenLinesDecoration, hiddenLines, gameOverCallback, statusBar,
     pointsPerFood, commentPatterns, maxColumn, interval, timers, commands,
     typeCommand, applied, listenerSaw, old, snakeGameActive, moves, tickHeading,
     commentHits >>

\* A step of the game loop's interval / one that advances the snake or ends
\* the game (the session was running and not paused).
TickStep == lastOp'.op = "tick"
AdvancingTick == moves' = moves + 1

\* The candidate head cell of a tick taken in the current state.
Candidate == getNewHead(This, snake[1])

Occupies(s, pos) == \E i \in 1..Len(s) : s[i] = pos

\* The cell holds a character other than white space.
NonBlankAt(pos) ==
  /\ pos.line \in 0..(lineCount - 1)
  /\ pos.char \in 0..(Len(lineText(pos.line)) - 1)
  /\ lineText(pos.line)[pos.char + 1] \notin {" ", "\t"}

\* The 0-based column at which the single-line comment of the document's
\* language starts on the line, or -1.
CommentStart(line) ==
  LET text == lineText(line)
      marker == IF doc.languageId \in {"javascript", "typescript"} THEN <<"/", "/">>
                ELSE IF doc.languageId = "python" THEN <<"#">> ELSE <<>>
      starts == { i \in 0..(Len(text) - Len(marker)) :
                    \A k \in 1..Len(marker) : text[i + k] = marker[k] }
  IN IF marker = <<>> \/ starts = {} THEN -1
     ELSE CHOOSE i \in starts : \A j \in starts : i <= j

InCommentAt(pos) ==
  NonBlankAt(pos) /\ CommentStart(pos.line) >= 0 /\ pos.char >= CommentStart(pos.line)

\* C1: in a running, unpaused session a tick ends the session (running flag
\* cleared, game loop stopped, handlers detached) exactly when its candidate
\* head cell is a cell of the snake as it is before the move (the tail
\* included); after any other tick the session is still live.
C1_SelfCollisionEndsSession ==
  [][ TickStep =>
        IF Advancing /\ Occupies(snake, Candidate)
        THEN ~isRunning' /\ ~interval' /\ ~commands'
        ELSE isRunning' /\ interval' /\ commands' ]_vars

\* C1 witness: a tick has found the candidate on the snake and ended the session.
C1_Witness ==
  /\ lastOp.op = "tick" /\ lastOp.outcome = "collision"
  /\ ~isRunning /\ ~interval /\ Len(snake) >= 3

\* C2: every cell of the snake lies inside the grid: 0 <= line < lineCount and
\* 0 <= char < maxColumn.
C2_WrapInvariant ==
  \A i \in 1..Len(snake) :
    /\ 0 <= snake[i].line /\ snake[i].line < lineCount
    /\ 0 <= snake[i].char /\ snake[i].char < maxColumn

\* C2 witness: the head has just wrapped from the last column to column 0.
C2_Witness ==
  /\ lastOp.op = "tick" /\ tickHeading = "right"
  /\ snake[1].char = 0 /\ snake[2].char = maxColumn - 1
  /\ snake[1].line = snake[2].line

\* C3: a directional command sets the heading to the requested one exactly when
\* the session is running, not paused and the request is not the opposite of
\* the current heading; otherwise it changes nothing.  Either way it leaves
\* the rest of the state alone.
C3_DirectionCommand ==
  [][ lastOp'.op = "direction" =>
        /\ UNCHANGED OtherState
        /\ direction' = IF /\ isRunning /\ ~isPaused
                           /\ lastOp'.arg # Opposite(direction)
                        THEN lastOp'.arg ELSE direction ]_vars

\* C3 witness: a request for the opposite heading has been rejected while
\* running and not paused.
C3_Witness ==
  /\ lastOp.op = "direction" /\ lastOp.outcome = "rejected"
  /\ isRunning /\ ~isPaused /\ lastOp.arg = Opposite(direction)

\* C4 (as claimed): no advancing tick has the cell of the segment behind the
\* head as its candidate, and none uses the opposite of the heading the
\* previous advancing tick used.
C4_NoReversalIntoBody ==
  [][ AdvancingTick =>
        /\ Candidate # snake[2]
        /\ tickHeading # "none" => direction # Opposite(tickHeading) ]_vars

\* The score a tick adds for the text of the cell the head lands on.
CommentBonus(pos) == IF InCommentAt(pos) THEN pointsPerFood \div 2 ELSE 0

\* C5 (as claimed): a capture adds exactly pointsPerFood to the score, whatever
\* the food cell holds, and one to the length; a tick that is neither a
\* capture nor a self-collision keeps the length.
C5_CaptureAddsExactlyPoints ==
  [][ (AdvancingTick /\ ~Occupies(snake, Candidate)) =>
        IF food = <<Candidate>>
        THEN score' = score + pointsPerFood /\ Len(snake') = Len(snake) + 1
        ELSE Len(snake') = Len(snake) ]_vars

\* C5 (amended): a capture adds pointsPerFood to the score, plus
\* floor(pointsPerFood / 2) when the food cell holds a non-blank character at
\* or after the start of a single-line comment, and one to the length; a tick
\* that is neither a capture nor a self-collision keeps the length.
C5_CaptureAddsPointsAndBonus ==
  [][ (AdvancingTick /\ ~Occupies(snake, Candidate)) =>
        IF food = <<Candidate>>
        THEN /\ score' = score + pointsPerFood + CommentBonus(Candidate)
             /\ Len(snake') = Len(snake) + 1
        ELSE Len(snake') = Len(snake) ]_vars

\* C5 witness: a capture on comment text whose bonus is not zero.
C5_Witness ==
  /\ lastOp.op = "tick" /\ lastOp.outcome = "capture" /\ lastOp.hit = "comment"
  /\ pointsPerFood \div 2 > 0
  /\ score >= pointsPerFood + pointsPerFood \div 2

\* The snake [(0,5),(0,4),(0,3)] heading right, with no food, in a running
\* session on the current document.
ExampleSnake ==
  [This EXCEPT !.snake = << Cell(0, 5), Cell(0, 4), Cell(0, 3) >>,
               !.direction = "right", !.food = <<>>,
               !.isRunning = TRUE, !.isPaused = FALSE]

\* C6: an ordinary move (candidate free, not the food cell) puts the candidate
\* at the head, shifts every other cell one place towards the tail, drops the
\* old tail, and keeps heading and food; the score is unchanged unless the
\* head landed on comment text.  A tick of the snake [(0,5),(0,4),(0,3)]
\* heading right leaves [(0,6),(0,5),(0,4)].
C6_OrdinaryMove ==
  /\ [][ (AdvancingTick /\ ~Occupies(snake, Candidate) /\ food # <<Candidate>>) =>
           /\ snake' = <<Candidate>> \o SubSeq(snake, 1, Len(snake) - 1)
           /\ UNCHANGED << direction, food >>
           /\ ~InCommentAt(Candidate) => score' = score ]_vars
  /\ [](\A w \in update(ExampleSnake) :
          w.snake = << Cell(0, 6), Cell(0, 5), Cell(0, 4) >>)

\* C6 witness: an ordinary move has been made.
C6_Witness ==
  /\ lastOp.op = "tick" /\ lastOp.outcome = "move" /\ isRunning
  /\ Len(snake) = 3 /\ snake[1] # snake[2]

\* C7: the tick that captures the food assigns a food cell and keeps the old
\* tail, and a food cell exists in every state of a session that is running
\* or paused.
C7_FoodAlwaysPresent ==
  /\ [](isRunning => Len(food) = 1)
  /\ [][ (AdvancingTick /\ ~Occupies(snake, Candidate) /\ food = <<Candidate>>) =>
           /\ Len(food') = 1
           /\ Len(snake') = Len(snake) + 1
           /\ snake'[Len(snake')] = snake[Len(snake)] ]_vars

\* C7 witness: the food has been captured and a food cell is assigned.
C7_Witness ==
  /\ lastOp.op = "tick" /\ lastOp.outcome = "capture"
  /\ isRunning /\ Len(food) = 1 /\ Len(snake) = 4

\* C8: once the session is constructed, pointsPerFood is floor(lineCount / 10),
\* at least 1 (100 -> 10, 50 -> 5, 10 -> 1, 9 -> 1, 1 -> 1), in every state.
C8_PointsPerFood ==
  statusBar.created =>
    /\ pointsPerFood >= 1
    /\ lineCount < 10 => pointsPerFood = 1
    /\ lineCount >= 10 => /\ 10 * pointsPerFood <= lineCount
                          /\ lineCount < 10 * pointsPerFood + 10
    /\ lineCount = 100 => pointsPerFood = 10
    /\ lineCount = 50 => pointsPerFood = 5
    /\ lineCount \in {1, 9, 10} => pointsPerFood = 1

\* C8 witness: a 100-line document scores 10 per food after ticks and commands.
C8_Witness ==
  /\ lineCount = 100 /\ pointsPerFood = 10
  /\ moves = MaxMoves /\ lastOp.op = "direction"

\* C9: a line enters hiddenLines only in an advancing tick whose new head is on
\* that line at a column below the text length that holds a non-blank
\* character; a line whose trimmed text is empty is never in hiddenLines.
C9_OnlyTextHides ==
  /\ [](\A l \in hiddenLines : ~TrimmedEmpty(lineText(l)))
  /\ [][ \A l \in hiddenLines' \ hiddenLines :
           /\ AdvancingTick
           /\ snake'[1].line = l
           /\ NonBlankAt(snake'[1]) ]_vars

\* C9 witness: the head has entered a blank character of a line holding only
\* white space, and the line is not hidden.
C9_Witness ==
  /\ lastOp.op = "tick" /\ lastOp.outcome \in {"move", "capture"}
  /\ Len(lineText(snake[1].line)) > 0
  /\ TrimmedEmpty(lineText(snake[1].line))
  /\ snake[1].char < Len(lineText(snake[1].line))
  /\ snake[1].line \notin hiddenLines

\* C10 (as claimed): while the session is active a line is in hiddenLines
\* exactly when the delay of some text-collision on it has not elapsed yet,
\* that is, exactly when an expiry scheduled for it is still pending.
C10_HiddenForFullDelay ==
  isRunning =>
    \A l \in 0..(lineCount - 1) :
      l \in hiddenLines <=> \E i \in 1..Len(timers) : timers[i] = l

\* The game state a tick or a callback works on.
GameState == << snake, direction, food, score, hiddenLines >>

\* C11: while the session is paused a tick leaves snake, heading, food, score
\* and hiddenLines as they are and schedules no expiry; the pause command
\* toggles the paused flag of a running session and changes none of these
\* either, and it leaves the game loop's interval live, so the ticks after a
\* second pause command advance from that very state.
C11_PausedTickHasNoEffect ==
  [][ /\ (TickStep /\ isRunning /\ isPaused) =>
           /\ UNCHANGED GameState
           /\ UNCHANGED << timers, isRunning, isPaused, interval >>
      /\ (lastOp'.op = "pause" /\ isRunning) =>
           /\ isPaused' = ~isPaused
           /\ UNCHANGED GameState
           /\ UNCHANGED << timers, isRunning, interval >>
           /\ interval ]_vars

\* C11 witness: a tick has fired in a paused session that had moved before.
C11_Witness ==
  /\ lastOp.op = "tick" /\ lastOp.outcome = "idle"
  /\ isRunning /\ isPaused /\ moves >= 1 /\ interval

\* The state of a session instance in the session-level state machine.
StateOf(w) ==
  IF ~w.statusBar.created THEN "Idle"
  ELSE IF w.isRunning THEN (IF w.isPaused THEN "Paused" ELSE "Running")
  ELSE "Terminated"

\* The instance that is currentGame's before a step, as it is after the step:
\* the start command moves it to the replaced ones.
InstanceAfter == IF lastOp'.op = "restart" THEN old'[Len(old')] ELSE This'

\* The replaced instances are terminated and stay so.
ReplacedStayTerminated ==
  \A i \in 1..Len(old) : StateOf(old[i]) = "Terminated" /\ StateOf(old'[i]) = "Terminated"

\* C12 (as claimed): an instance changes state only by Idle -> Running on
\* start, Running <-> Paused on pause, Running -> Terminated on self-collision,
\* stop or quit, and Paused -> Terminated on stop or quit; these operations
\* make these transitions, and a terminated instance stays terminated.
C12_StateMachine ==
  [][ LET from == StateOf(This)
          to == StateOf(InstanceAfter)
          op == lastOp'.op
          ends == \/ op \in {"stop", "exit"}
                  \/ op = "tick" /\ lastOp'.outcome = "collision"
      IN /\ ReplacedStayTerminated
         /\ from = "Idle" => IF op = "start" /\ lastOp'.outcome = "started"
                             THEN to = "Running" ELSE to = "Idle"
         /\ from = "Running" => IF op = "pause" THEN to = "Paused"
                                ELSE IF ends THEN to = "Terminated"
                                ELSE to = "Running"
         /\ from = "Paused" => IF op = "pause" THEN to = "Running"
                               ELSE IF op \in {"stop", "exit"} THEN to = "Terminated"
                               ELSE to = "Paused"
         /\ from = "Terminated" => to = "Terminated" ]_vars

\* C12 (amended): as above, and the start command terminates the running or
\* paused instance it replaces (the instance that becomes currentGame goes
\* from Idle to Running).
C12_StateMachineWithReplacement ==
  [][ LET from == StateOf(This)
          to == StateOf(InstanceAfter)
          op == lastOp'.op
          ends == \/ op \in {"stop", "exit", "restart"}
                  \/ op = "tick" /\ lastOp'.outcome = "collision"
      IN /\ ReplacedStayTerminated
         /\ op = "restart" => StateOf(This') = "Running"
         /\ from = "Idle" => IF op = "start" /\ lastOp'.outcome = "started"
                             THEN to = "Running" ELSE to = "Idle"
         /\ from = "Running" => IF op = "pause" THEN to = "Paused"
                                ELSE IF ends THEN to = "Terminated"
                                ELSE to = "Running"
         /\ from = "Paused" => IF op = "pause" THEN to = "Running"
                               ELSE IF op \in {"stop", "exit", "restart"}
                               THEN to = "Terminated"
                               ELSE to = "Paused"
         /\ from = "Terminated" => to = "Terminated" ]_vars

\* C12 witness: the start command has replaced a paused instance that was
\* still currentGame, and a timer of the replaced instance has fired since.
C12_Witness ==
  /\ Len(old) = 1 /\ old[1].currentGame = "game" /\ old[1].isPaused
  /\ StateOf(old[1]) = "Terminated"
  /\ lastOp.op = "expire-old" /\ isRunning

\* The decoration fields of the session.
Decorations == << snakeDecorations, foodDecoration, hiddenLinesDecoration >>

\* C13 (as claimed): an expiry callback that fires when its session is no
\* longer running changes neither hiddenLines nor the decorations.
C13_ExpiryAfterEndIsNoOp ==
  [][ (lastOp'.op = "expire" /\ ~isRunning) =>
        UNCHANGED << hiddenLines, applied, Decorations >> ]_vars

\* C14 (as claimed): once the session has ended its interval is cleared, its
\* handlers are detached, its status bar item is disposed and none of its
\* decorations is on the editor, in every later state.
C14_NothingAfterEnd ==
  (statusBar.created /\ ~isRunning) =>
    /\ ~interval /\ ~commands /\ statusBar.disposed /\ ~statusBar.shown
    /\ applied = EmptyBag
    /\ Decorations = << <<>>, <<>>, <<>> >>

\* C15: whenever the game-over listener is invoked, the running flag is
\* cleared, the interval is cleared, the command handlers are detached and no
\* decoration of the session is on the editor; a self-collision, stop and quit
\* each invoke it once.
C15_ReleasedBeforeListener ==
  /\ [](\A i \in 1..Len(listenerSaw) :
          /\ ~listenerSaw[i].isRunning /\ ~listenerSaw[i].interval
          /\ ~listenerSaw[i].commands /\ listenerSaw[i].applied = EmptyBag)
  /\ [][ ( \/ lastOp'.op \in {"stop", "exit"}
           \/ lastOp'.op = "tick" /\ lastOp'.outcome = "collision" ) =>
         Len(listenerSaw') = Len(listenerSaw) + 1 ]_vars

\* C15 witness: a quit has ended a session that had decorations and a hidden
\* line, and the listener has been invoked.
C15_Witness ==
  /\ lastOp.op = "exit" /\ Len(listenerSaw) = 1 /\ currentGame = "undefined"
  /\ hiddenLines # {} /\ ~isRunning

\* The range that marks one cell.
CellMark(pos) == [line |-> pos.line, start |-> pos.char, end |-> pos.char + 1]

\* The decorations the game state calls for: one for the head, one for the
\* body, one for the food (FoodMarkWidth columns from the food cell on), and
\* one spanning the hidden lines, when there are any.
ExpectedMarks ==
  (IF Len(snake) > 0
   THEN { [kind |-> "head", ranges |-> { CellMark(snake[1]) }] } ELSE {})
  \cup (IF Len(snake) > 1
        THEN { [kind |-> "body", ranges |-> { CellMark(snake[i]) : i \in 2..Len(snake) }] }
        ELSE {})
  \cup (IF food # <<>>
        THEN { [kind |-> "food",
                ranges |-> { [line |-> food[1].line, start |-> food[1].char,
                              end |-> food[1].char + FoodMarkWidth] }] }
        ELSE {})
  \cup (IF hiddenLines # {}
        THEN { [kind |-> "hidden",
                ranges |-> { [line |-> l, start |-> 0, end |-> Len(lineText(l))]
                             : l \in hiddenLines }] }
        ELSE {})

\* C16: in every state of a running session (so after each of its ticks and
\* each expiry callback) the decorations on the editor are exactly the ones the
\* game state calls for, one of each kind and none left of an earlier render,
\* and the decoration fields refer to exactly these.
C16_PresentationSync ==
  isRunning =>
    /\ applied = SetToBag(ExpectedMarks)
    /\ BagOf(snakeDecorations) (+) BagOf(foodDecoration) (+) BagOf(hiddenLinesDecoration)
         = applied

\* C16 witness: a tick that captured the food on text has rendered a head, a
\* body, a new food cell and a hidden line.
C16_Witness ==
  /\ lastOp.op = "tick" /\ lastOp.outcome = "capture" /\ isRunning
  /\ hiddenLines # {} /\ BagCardinality(applied) = 4

\* C17: a tick whose new head is on a non-blank character adds the line to
\* hiddenLines and schedules exactly one expiry for it, and adds
\* floor(pointsPerFood / 2) to the score when the column is at or after the
\* start of a single-line comment (on top of pointsPerFood when the cell is
\* the food cell); a tick whose new head is not on such a character hides
\* nothing and schedules nothing.
C17_TextHitHidesAndBonusAdds ==
  [][ (AdvancingTick /\ ~Occupies(snake, Candidate)) =>
        IF NonBlankAt(Candidate)
        THEN /\ Candidate.line \in hiddenLines'
             /\ hiddenLines' = hiddenLines \cup {Candidate.line}
             /\ timers' = Append(timers, Candidate.line)
             /\ score' = score + (IF food = <<Candidate>> THEN pointsPerFood ELSE 0)
                               + CommentBonus(Candidate)
        ELSE /\ hiddenLines' = hiddenLines
             /\ timers' = timers ]_vars

\* C17 witness: an ordinary move onto comment text has earned the bonus and
\* the line is hidden.
C17_Witness ==
  /\ lastOp.op = "tick" /\ lastOp.outcome = "move" /\ lastOp.hit = "comment"
  /\ pointsPerFood \div 2 > 0 /\ score >= pointsPerFood \div 2
  /\ snake[1].line \in hiddenLines /\ timers # <<>>

\* A snake that lies on every cell a draw of spawnFood can produce.
RECURSIVE SeqOf(_)
SeqOf(cells) ==
  IF cells = {} THEN <<>>
  ELSE LET p == CHOOSE q \in cells : TRUE IN <<p>> \o SeqOf(cells \ {p})

Blocked == [This EXCEPT !.snake = SeqOf(FoodCandidates)]

\* C18: in every state, spawnFood ends with a food cell assigned and nothing
\* else changed: a cell it can draw that is not on the snake, or, only when
\* some cell it can draw is on the snake, the fallback cell
\* (floor(lineCount / 2), 10); on a snake that covers every cell it can draw
\* it assigns the fallback cell.
C18_SpawnFoodAssigns ==
  /\ spawnFood(This) # {}
  /\ \A w \in spawnFood(This) :
       /\ Len(w.food) = 1
       /\ [w EXCEPT !.food = food] = This
       /\ \/ w.food[1] \in FoodCandidates /\ ~Occupies(snake, w.food[1])
          \/ /\ w.food[1] = Cell(lineCount \div 2, 10)
             /\ \E p \in FoodCandidates : Occupies(snake, p)
  /\ spawnFood(Blocked) = { [Blocked EXCEPT !.food = << Cell(lineCount \div 2, 10) >>] }

\* C18 witness: a capture has happened with a cell spawnFood can draw under
\* the snake, and the fallback cell has been assigned.
C18_Witness ==
  /\ lastOp.op = "tick" /\ lastOp.outcome = "capture"
  /\ \E p \in FoodCandidates : Occupies(snake, p)
  /\ food = << Cell(lineCount \div 2, 10) >>

\* C19: no two cells of the snake coincide.
C19_SnakeCellsDistinct ==
  \A i, j \in 1..Len(snake) : i # j => snake[i] # snake[j]

\* C19 witness: a snake that has grown and turned, after the last tick the
\* bound allows.
C19_Witness ==
  /\ Len(snake) >= 4 /\ moves = MaxMoves /\ isRunning
  /\ snake[1].line # snake[Len(snake)].line

\* C20: every operation after the start keeps the length of the snake, except
\* the tick that captures the food, which adds one; from the start on the
\* length is at least 3.
C20_LengthNeverDecreases ==
  /\ [][ lastOp'.op # "start" =>
           Len(snake') = Len(snake)
             + (IF AdvancingTick /\ ~Occupies(snake, Candidate) /\ food = <<Candidate>>
                THEN 1 ELSE 0) ]_vars
  /\ [](statusBar.created => Len(snake) >= 3)

\* C20 witness: a snake that had grown to four cells is still four cells long
\* after the session was ended.
C20_Witness ==
  /\ lastOp.op \in {"stop", "exit"} /\ ~isRunning /\ Len(snake) = 4

\* C21: the score is 0 until the first tick of the session, and every
\* operation leaves it as it is or adds pointsPerFood (capture),
\* floor(pointsPerFood / 2) (comment hit) or both; only an advancing tick
\* changes it.
C21_ScoreNeverDecreases ==
  /\ []((~statusBar.created \/ lastOp.op = "start") => score = 0)
  /\ [][ /\ score' >= score
         /\ score' - score \in { 0, pointsPerFood, pointsPerFood \div 2,
                                 pointsPerFood + pointsPerFood \div 2 }
         /\ score' # score => AdvancingTick ]_vars

\* C21 witness: a session that had scored has been stopped and keeps its score.
C21_Witness ==
  /\ lastOp.op = "stop" /\ ~isRunning /\ score > 0

\* The session has been ended and released by the step.
Ended ==
  /\ ~isRunning' /\ ~interval' /\ ~commands'
  /\ statusBar'.disposed /\ applied' = EmptyBag

\* C22 (as claimed): stop and quit each end a running or paused session; quit
\* invokes the game-over listener, stop does not.
C22_OnlyQuitSignals ==
  [][ /\ (lastOp'.op = "stop" /\ isRunning) =>
           Ended /\ listenerSaw' = listenerSaw
      /\ (lastOp'.op = "exit" /\ isRunning) =>
           Ended /\ Len(listenerSaw') = Len(listenerSaw) + 1 ]_vars

\* C22 (amended): stop and quit each end a running or paused session, and each
\* invokes the game-over listener once, which clears the extension's
\* currentGame.
C22_StopAndQuitSignal ==
  [][ (lastOp'.op \in {"stop", "exit"} /\ isRunning) =>
        /\ Ended
        /\ Len(listenerSaw') = Len(listenerSaw) + 1
        /\ currentGame = "game" /\ currentGame' = "undefined" ]_vars

\* C22 witness: the stop command has ended a paused session and the listener
\* has been invoked.
C22_Witness ==
  /\ lastOp.op = "stop" /\ isPaused /\ ~isRunning
  /\ Len(listenerSaw) = 1 /\ currentGame = "undefined"

\* C23: the start command given while no editor is active shows one error
\* notification and nothing else, and changes nothing: no session is
\* constructed, and a session that exists keeps its state, its interval, its
\* handlers and its decorations.
C23_StartWithoutEditorAborts ==
  [][ (lastOp'.op = "start" /\ lastOp'.outcome = "no-editor") =>
        /\ notices' = <<"error">>
        /\ UNCHANGED << OtherState, direction >> ]_vars

\* C23 witness: the command has been given with no editor active while a
\* paused session that had moved exists.
C23_Witness ==
  /\ lastOp.op = "start" /\ lastOp.outcome = "no-editor" /\ notices = <<"error">>
  /\ isRunning /\ isPaused /\ moves >= 1 /\ interval /\ commands

\* C24: a tick that finds the candidate on the snake leaves snake, heading,
\* food, score and hiddenLines as they are and schedules no expiry.
C24_CollisionTickFrame ==
  [][ (TickStep /\ Advancing /\ Occupies(snake, Candidate)) =>
        /\ UNCHANGED GameState
        /\ UNCHANGED timers ]_vars

\* C24 witness: on a one-line document the first tick, heading up, has found
\* the candidate on the snake, on a cell that holds text; no line is hidden.
C24_Witness ==
  /\ lastOp.op = "tick" /\ lastOp.outcome = "collision"
  /\ lineCount = 1 /\ tickHeading = "up" /\ NonBlankAt(snake[1])
  /\ hiddenLines = {} /\ timers = <<>>

\* The line above / below the head, with the wrap between line 0 and the last
\* line.
LineAbove == IF snake[1].line = 0 THEN lineCount - 1 ELSE snake[1].line - 1
LineBelow == IF snake[1].line = lineCount - 1 THEN 0 ELSE snake[1].line + 1
VerticalLine == IF direction = "up" THEN LineAbove ELSE LineBelow

\* C25 (as claimed): the candidate of a tick heading up or down is on the line
\* above or below the head, with the wrap, in the head's column, and it is the
\* new head unless it is on the snake.
C25_VerticalKeepsColumn ==
  [][ (AdvancingTick /\ direction \in {"up", "down"}) =>
        /\ Candidate = Cell(VerticalLine, snake[1].char)
        /\ isRunning' => snake'[1] = Cell(VerticalLine, snake[1].char) ]_vars

\* C25 (amended): the candidate of a tick heading up or down is on the line
\* above or below the head, with the wrap, in the column
\* min(head's column, length of that line, maxColumn - 1), and it is the new
\* head unless it is on the snake.
C25_VerticalClampsColumn ==
  [][ (AdvancingTick /\ direction \in {"up", "down"}) =>
        LET col == Min(snake[1].char, Min(Len(lineText(VerticalLine)), maxColumn - 1))
        IN /\ Candidate = Cell(VerticalLine, col)
           /\ isRunning' => snake'[1] = Cell(VerticalLine, col) ]_vars

\* C25 witness: a tick heading up or down has moved the head to a shorter
\* line, into a lower column.
C25_Witness ==
  /\ lastOp.op = "tick" /\ lastOp.outcome = "move" /\ tickHeading \in {"up", "down"}
  /\ snake[1].line # snake[2].line /\ snake[1].char < snake[2].char
  /\ snake[1].char = Len(lineText(snake[1].line))

\* C26: the candidate of a tick heading left or right is on the head's line,
\* one column to the left or right modulo maxColumn (left of column 0 is
\* column maxColumn - 1, right of column maxColumn - 1 is column 0), and it is
\* the new head unless it is on the snake; from every column of the grid the
\* step is the shift by one modulo maxColumn, so maxColumn steps in one
\* direction lead back to the column they started from.
C26_HorizontalFixedWrap ==
  /\ [][ (AdvancingTick /\ direction \in {"left", "right"}) =>
           LET col == IF direction = "left"
                      THEN (snake[1].char + maxColumn - 1) % maxColumn
                      ELSE (snake[1].char + 1) % maxColumn
           IN /\ Candidate = Cell(snake[1].line, col)
              /\ isRunning' => snake'[1] = Cell(snake[1].line, col) ]_vars
  /\ [](lastOp.op = "start" =>
          \A c \in 0..(maxColumn - 1) :
            /\ getNewHead([This EXCEPT !.direction = "right"], Cell(0, c))
                 = Cell(0, (c + 1) % maxColumn)
            /\ getNewHead([This EXCEPT !.direction = "left"], Cell(0, c))
                 = Cell(0, (c + maxColumn - 1) % maxColumn))

\* C26 witness: a tick heading left has taken the head from column 0 to
\* column maxColumn - 1.
C26_Witness ==
  /\ lastOp.op = "tick" /\ tickHeading = "left"
  /\ snake[1].char = maxColumn - 1 /\ snake[2].char = 0
  /\ snake[1].line = snake[2].line

\* C27: an expiry callback of a running (or paused) session removes the line
\* it was scheduled for from hiddenLines and no other, leaves snake, heading,
\* food, score and the running and paused flags as they are, and ends with
\* the decorations the new state calls for.
C27_ExpiryFrame ==
  [][ (lastOp'.op = "expire" /\ isRunning) =>
        /\ hiddenLines' = hiddenLines \ {Head(timers)}
        /\ timers' = Tail(timers)
        /\ UNCHANGED << snake, direction, food, score, isRunning, isPaused >>
        /\ applied' = SetToBag(ExpectedMarks') ]_vars

\* C27 witness: with two lines hidden and the session paused, a callback has
\* removed one of them and another callback is still pending.
C27_Witness ==
  /\ lastOp.op = "expire" /\ isRunning /\ isPaused
  /\ Cardinality(hiddenLines) = 1 /\ timers # <<>>
  /\ \A i \in 1..Len(timers) : timers[i] \in hiddenLines

\* C28: with every scheduled timer firing in the end, hiddenLines is empty
\* from some state on and stays empty (the ticks that can hit text are
\* bounded), so every line that is in hiddenLines is later out of it.
C28_HiddenLinesExpire == <>[](hiddenLines = {})

\* C28 witness: the last pending callback of a paused session has fired and
\* hiddenLines is empty.
C28_Witness ==
  /\ lastOp.op = "expire" /\ isRunning /\ isPaused
  /\ hiddenLines = {} /\ timers = <<>> /\ moves >= 2

\* C29 (as claimed): while the session is running the food cell is not a cell
\* of the snake.
C29_FoodOffSnake ==
  (isRunning /\ food # <<>>) => ~Occupies(snake, food[1])

\* C30 (as claimed): the food cell is inside the grid the snake moves in: its
\* line is below lineCount and its column is below maxColumn.
C30_FoodInsideGrid ==
  food # <<>> =>
    /\ food[1].line \in 0..(lineCount - 1)
    /\ food[1].char \in 0..(maxColumn - 1)

\* C31: once a session has been started, score = pointsPerFood * (snake
\* length - 3) + floor(pointsPerFood / 2) * (the ticks so far whose head
\* landed on comment text), so score >= pointsPerFood * (snake length - 3);
\* the length grows by one in exactly the ticks that capture the food.
C31_Accounting ==
  /\ [](snake # <<>> =>
          /\ score = pointsPerFood * (Len(snake) - 3)
                       + (pointsPerFood \div 2) * commentHits
          /\ score >= pointsPerFood * (Len(snake) - 3))
  /\ [][ Len(snake') = Len(snake) + 1 <=>
           (AdvancingTick /\ ~Occupies(snake, Candidate) /\ food = <<Candidate>>) ]_vars

\* C31 witness: the session has captured the food and has been on comment
\* text, and each has added to the score.
C31_Witness ==
  /\ Len(snake) > 3 /\ commentHits > 0 /\ pointsPerFood \div 2 > 0
  /\ score = pointsPerFood + (pointsPerFood \div 2) * commentHits

\* C32: no replaced session instance is running, has a live game loop or
\* registered command handlers; a running flag, a live game loop or registered
\* handlers of the latest instance mean that currentGame refers to it; and the
\* start command leaves the instance it replaces stopped and detached, and
\* without marks if it was currentGame, before the new instance is live.
C32_AtMostOneActive ==
  /\ [](/\ \A i \in 1..Len(old) :
             ~old[i].isRunning /\ ~old[i].interval /\ ~old[i].commands
        /\ currentGame \in {"game", "undefined"}
        /\ (isRunning \/ interval \/ commands) => currentGame = "game")
  /\ [][ lastOp'.op = "restart" =>
           /\ currentGame = "game" => old'[Len(old')].applied = EmptyBag
           /\ old'[Len(old')].statusBar.disposed
           /\ ~old'[Len(old')].snakeGameActive
           /\ isRunning' /\ interval' /\ commands' /\ currentGame' = "game" ]_vars

\* C32 witness: the start command has replaced a session that was live: its
\* listener was never invoked, and the extension disposed it.
C32_Witness ==
  /\ lastOp.op = "restart" /\ Len(old) = 1
  /\ old[1].listenerSaw = <<>> /\ old[1].statusBar.disposed /\ old[1].snake # <<>>
  /\ isRunning /\ interval /\ commands /\ currentGame = "game"

\* C33: the game-over listener of a session instance is invoked at most
\* once, and the session is terminated whenever it is invoked; a replaced
\* instance never invokes its listener again (one the extension disposed
\* never has), and currentGame is cleared only by an invocation of the
\* listener of the instance it refers to.
C33_ListenerAtMostOnce ==
  /\ [](/\ Len(listenerSaw) <= 1
        /\ \A k \in 1..Len(listenerSaw) : ~listenerSaw[k].isRunning
        /\ \A i \in 1..Len(old) :
             /\ Len(old[i].listenerSaw) <= 1
             /\ \A k \in 1..Len(old[i].listenerSaw) : ~old[i].listenerSaw[k].isRunning)
  /\ [][ /\ \A i \in 1..Len(old) : old'[i].listenerSaw = old[i].listenerSaw
         /\ (lastOp'.op = "restart" /\ currentGame = "game") =>
              old'[Len(old')].listenerSaw = <<>>
         /\ (currentGame = "game" /\ currentGame' = "undefined") =>
              /\ lastOp'.op \in {"tick", "stop", "exit"}
              /\ listenerSaw' = Append(listenerSaw, listenerSaw'[Len(listenerSaw')]) ]_vars

\* C33 witness: a session the extension replaced has never invoked its
\* listener, and the session that replaced it has ended and invoked its own
\* once.
C33_Witness ==
  /\ Len(old) = 1 /\ old[1].listenerSaw = <<>> /\ old[1].statusBar.disposed
  /\ Len(listenerSaw) = 1 /\ currentGame = "undefined" /\ ~isRunning

\* C34: on a document of one line the candidate of a tick heading up or down
\* is on line 0, in column min(head's column, length of line 0,
\* maxColumn - 1); when the head's column is at most the length of the line
\* the candidate is the head cell itself and the tick ends the session as a
\* self-collision, leaving the snake as it was.
C34_OneLineVertical ==
  [][ (AdvancingTick /\ lineCount = 1 /\ direction \in {"up", "down"}) =>
        LET col == Min(snake[1].char, Min(Len(lineText(0)), maxColumn - 1))
        IN /\ Candidate = Cell(0, col)
           /\ isRunning' => snake'[1] = Cell(0, col)
           /\ snake[1].char <= Len(lineText(0)) =>
                /\ Cell(0, col) = snake[1]
                /\ ~isRunning' /\ ~interval' /\ ~commands'
                /\ lastOp'.outcome = "collision"
                /\ snake' = snake /\ score' = score ]_vars

\* C34 witness: on a one-line document the first tick after an up or down
\* command has ended the session with the snake where it started.
C34_Witness ==
  /\ lineCount = 1 /\ lastOp.op = "tick" /\ lastOp.outcome = "collision"
  /\ tickHeading \in {"up", "down"} /\ moves = 1
  /\ snake[1].char <= Len(lineText(0)) /\ ~isRunning

\* C35 (as claimed): in the older variant, in every state with a snake no two
\* cells of the snake coincide; the snake start creates has three cells, all
\* on line 0.
C35_OlderSnakeCellsDistinct ==
  /\ \A i, j \in 1..Len(snake) : i # j => snake[i] # snake[j]
  /\ lastOp.op = "start" /\ lastOp.outcome = "started" =>
       Len(snake) = 3 /\ \A i \in 1..3 : snake[i].line = 0

\* C36 (as claimed): in the older variant, once the session has ended no
\* step changes its heading and none invokes its game-over listener again.
C36_OlderHandlersReleased ==
  [][ (statusBar.created /\ ~isRunning) =>
        /\ direction' = direction
        /\ listenerSaw' = listenerSaw ]_vars

====
